---- MODULE Spec2Model ----
(***************************************************************************)
(* Model of document::BucketId (document/bucket/bucketid.cpp): the two     *)
(* mask tables and their one-time fill, the 64-bit bit reversal, the       *)
(* key -> bucket id conversion, the validating setUsedBits mutator and the *)
(* containment test.                                                       *)
(*                                                                         *)
(* A 64-bit word (BucketId::Type = uint64_t) is modelled exactly, as the   *)
(* set of the positions of its 1 bits, a subset of 0..63: bit-and is set   *)
(* intersection, bit-or is union, shifts move positions and drop those     *)
(* that leave the word.                                                    *)
(***************************************************************************)
EXTENDS Integers, FiniteSets, Sequences, TLC

VARIABLES _usedMasks, _stripMasks, staticInit, pc, usedBits, initRuns, initDone, bucket, last

vars == <<_usedMasks, _stripMasks, staticInit, pc, usedBits, initRuns, initDone, bucket, last>>

(***************************************************************************)
(* Words                                                                   *)
(***************************************************************************)
\* 8 * sizeof(Type), Type = uint64_t
W == 64

\* enum { CountBits = 6 }: the high-order bits that hold the used-bits count
CountBits == 6

\* maxNumBits = 8 * sizeof(Type) - CountBits
maxNumBits == W - CountBits

Bit == 0..(W - 1)

\* std::numeric_limits<Type>::max()
TypeMax == Bit

Zero == {}

\* the count-field region: the top W - maxNumBits bit positions
CountField == {i \in Bit : i >= maxNumBits}

\* x << k on uint64_t, 0 <= k < 64
Shl(x, k) == {i + k : i \in {j \in x : j + k < W}}

\* x >> k on uint64_t, 0 <= k < 64
Shr(x, k) == {i - k : i \in {j \in x : j >= k}}

\* the uint64_t holding the number n, 0 <= n < 2^31
ToWord(n) == {i \in 0..30 : (n \div (2 ^ i)) % 2 = 1}

\* the number held by a word whose set bits are all below bit 31
RECURSIVE ToNum(_)
ToNum(x) == IF x = {} THEN 0
            ELSE LET i == CHOOSE j \in x : TRUE IN (2 ^ i) + ToNum(x \ {i})

(***************************************************************************)
(* Mask tables                                                             *)
(***************************************************************************)
\* uint8_t notused = 8 * sizeof(Type) - usedBits;
notused(n) == (W - n) % 256

\* a fill that keeps one bit too many: max >> (notused - 1)
usedMaskOffByOne(n) == Shr(TypeMax, notused(n) - 1)

\* (usedBits > 0) ? ((max << notused) >> notused) : max
usedMask(n) == IF n > 0 THEN Shr(Shl(TypeMax, notused(n)), notused(n)) ELSE TypeMax

\* Type countMask = (max >> maxBits) << maxBits;
countMask(maxBits) == Shl(Shr(TypeMax, maxBits), maxBits)

\* masks[usedBits] = usedMask | countMask;
stripMask(n, maxBits) == usedMask(n) \cup countMask(maxBits)

\* the table fillUsedMasks leaves behind
fillUsedMasks(maxBits) == [n \in 0..maxBits |-> usedMask(n)]

\* the table fillStripMasks leaves behind
fillStripMasks(maxBits) == [n \in 0..maxBits |-> stripMask(n, maxBits)]

\* static storage: zero-initialised before any dynamic initialisation
ZeroTable == [n \in 0..maxNumBits |-> Zero]

(***************************************************************************)
(* Bit reversal and key -> bucket id                                       *)
(***************************************************************************)
\* 0x5555555555555555
M5555 == {i \in Bit : i % 2 = 0}
\* 0xaaaaaaaaaaaaaaaa
Maaaa == {i \in Bit : i % 2 = 1}
\* 0x3333333333333333
M3333 == {i \in Bit : i % 4 < 2}
\* 0xcccccccccccccccc
Mcccc == {i \in Bit : i % 4 >= 2}
\* 0x0f0f0f0f0f0f0f0f
M0f0f == {i \in Bit : i % 8 < 4}
\* 0xf0f0f0f0f0f0f0f0
Mf0f0 == {i \in Bit : i % 8 >= 4}

\* __builtin_bswap64: byte k goes to byte 7 - k
bswap64(x) == {(7 - (i \div 8)) * 8 + (i % 8) : i \in x}

\* a reversal that forgets the nibble stage
reverseNoNibbleSwap(id) ==
    LET s1 == Shl(id \cap M5555, 1) \cup Shr(id \cap Maaaa, 1)
        s2 == Shl(s1 \cap M3333, 2) \cup Shr(s1 \cap Mcccc, 2)
    IN  bswap64(s2)

\* BucketId::reverse
reverse(id) ==
    LET s1 == Shl(id \cap M5555, 1) \cup Shr(id \cap Maaaa, 1)
        s2 == Shl(s1 \cap M3333, 2) \cup Shr(s1 \cap Mcccc, 2)
        s4 == Shl(s2 \cap M0f0f, 4) \cup Shr(s2 \cap Mf0f0, 4)
    IN  bswap64(s4)

\* a conversion that seeds the count field from the key's high bits
keyToBucketIdHighBits(key) ==
    LET retVal == reverse(key)
        usedCountMSB == Shl(Shr(key, maxNumBits), maxNumBits)
    IN  Shr(Shl(retVal, CountBits), CountBits) \cup usedCountMSB

\* BucketId::keyToBucketId
keyToBucketId(key) ==
    LET retVal == reverse(key)
        usedCountMSB == Shl(key, maxNumBits)
    IN  Shr(Shl(retVal, CountBits), CountBits) \cup usedCountMSB

(***************************************************************************)
(* The identifier value type (bucketid.h)                                  *)
(***************************************************************************)
\* uint32_t getUsedBits() const { return _id >> maxNumBits; }
getUsedBits(id) == ToNum(Shr(id, maxNumBits))

\* Type getRawId() const { return _id; }
getRawId(id) == id

\* BucketId(uint32_t useBits, Type id): the count field set to useBits, the
\* location field the low maxNumBits bits of id
createUsedBits(used, id) ==
    Shr(Shl(id, CountBits), CountBits) \cup Shl(ToWord(used), maxNumBits)

\* Type getStripMask() const { return _stripMasks[getUsedBits()]; }
\* The table has maxNumBits + 1 entries; a count field of 59..63 indexes past
\* its end, and oob is the word that read yields.
getStripMask(id, oob) ==
    IF getUsedBits(id) <= maxNumBits THEN _stripMasks[getUsedBits(id)] ELSE oob

\* Type getId() const { return _id & getStripMask(); }
getId(id, oob) == id \cap getStripMask(id, oob)

NoException == [type |-> "none", message |-> <<>>]

throwFailedSetUsedBitsSwapped(used, availBits) ==
    [type |-> "IllegalArgumentException",
     message |-> <<"Failed to set used bits to ", availBits, ", max is ", used, ".">>]

\* BucketId::throwFailedSetUsedBits
throwFailedSetUsedBits(used, availBits) ==
    [type |-> "IllegalArgumentException",
     message |-> <<"Failed to set used bits to ", used, ", max is ", availBits, ".">>]

\* void setUsedBits(uint32_t used): the new _id and what was thrown
setUsedBits(id, used) ==
    IF used > maxNumBits
    THEN [_id |-> id, exc |-> throwFailedSetUsedBits(used, maxNumBits)]
    ELSE [_id |-> createUsedBits(used, id), exc |-> NoException]

(***************************************************************************)
(* Containment                                                             *)
(***************************************************************************)
\* a copy built from the key order of the candidate instead of its raw value
reduceOfKey(used, raw, oob) == getId(createUsedBits(used, reverse(raw)), oob)

\* BucketId copy(getUsedBits(), id.getRawId()); copy.getId()
reduce(used, raw, oob) == getId(createUsedBits(used, raw), oob)

\* a containment test without the precision guard
containsNoGuard(self, id, oob) ==
    reduce(getUsedBits(self), getRawId(id), oob) = getId(self, oob)

\* a containment test whose guard also rejects equal precision
containsStrictGuard(self, id, oob) ==
    IF getUsedBits(id) <= getUsedBits(self)
    THEN FALSE
    ELSE reduce(getUsedBits(self), getRawId(id), oob) = getId(self, oob)

\* a containment test whose guard compares the wrong way round
containsReversedGuard(self, id, oob) ==
    IF getUsedBits(id) > getUsedBits(self)
    THEN FALSE
    ELSE reduce(getUsedBits(self), getRawId(id), oob) = getId(self, oob)

\* a containment test that compares with the raw value of this identifier
containsRawSelf(self, id, oob) ==
    IF getUsedBits(id) < getUsedBits(self)
    THEN FALSE
    ELSE reduce(getUsedBits(self), getRawId(id), oob) = getRawId(self)

\* BucketId::contains
contains(self, id, oob) ==
    IF getUsedBits(id) < getUsedBits(self)
    THEN FALSE
    ELSE reduce(getUsedBits(self), getRawId(id), oob) = getId(self, oob)

(***************************************************************************)
(* Inputs                                                                  *)
(***************************************************************************)
\* used-bits counts 0..MaxSmallUsed are drawn, and maxNumBits
MaxSmallUsed == 2

\* setUsedBits is also called with maxNumBits + 1 .. maxNumBits + MaxOver
MaxOver == 2

\* initialize() is called explicitly at most MaxInitRuns times
MaxInitRuns == 2

UsedInputs == (0..MaxSmallUsed) \cup {maxNumBits - 1, maxNumBits}

SetUsedBitsInputs == UsedInputs \cup ((maxNumBits + 1)..(maxNumBits + MaxOver))

\* raw values handed to BucketId(useBits, id)
IdInputs ==
    {Zero, {0}, {1}, {0, 1}, {maxNumBits - 2}, {maxNumBits - 1}, TypeMax}

\* raw values read from a stream: 0x0800000000000002 (count field 2) and
\* 0xfc00000000000003 (count field 63, past the tables)
WireInputs == {{1, 59}, {0, 1} \cup CountField}

\* words an out-of-bounds read of _stripMasks may yield. The read is undefined
\* behaviour and any word is possible; drawn are every word over the low three
\* bits (among them 0x0, 0x1, 0x3 and 0x7, what neighbouring storage holds
\* when _usedMasks lies behind _stripMasks) and the all-ones word.
OobReads == (SUBSET {0, 1, 2}) \cup {TypeMax}

\* the identifiers BucketId(useBits, id) builds from the inputs
IdObjects == {createUsedBits(u, id) : u \in UsedInputs, id \in IdInputs}

\* words handed to reverse and keyToBucketId
KeyInputs ==
    {Zero, TypeMax, M5555, Maaaa, M0f0f}
        \cup {{i} : i \in Bit} \cup {TypeMax \ {i} : i \in Bit} \cup {0..i : i \in Bit}

\* the smaller input sets of the three-identifier runs and of start-up
ChainUsedInputs == 0..MaxSmallUsed

ChainIdInputs == {Zero, {0}, {1}, {0, 1}}

ChainObjects == {createUsedBits(u, id) : u \in ChainUsedInputs, id \in ChainIdInputs}

Names == {"a", "b"}

ChainNames == {"a", "b", "c"}

NoCall == [op |-> "none", self |-> "", arg |-> "", n |-> 0, val |-> Zero,
           mask |-> Zero, out |-> Zero, ret |-> FALSE, exc |-> NoException]

(***************************************************************************)
(* Start-up: the fill of the tables and its callers                        *)
(***************************************************************************)
InitStartup ==
    /\ _usedMasks = ZeroTable
    /\ _stripMasks = ZeroTable
    /\ staticInit = "pending"
    /\ pc = "idle"
    /\ usedBits = 0
    /\ initRuns = 0
    /\ initDone = 0
    /\ bucket = [x \in Names |-> Zero]
    /\ last = NoCall

\* Initialize _initializeUsedMasks; the constructor calls BucketId::initialize()
StaticInitBegin ==
    /\ staticInit = "pending"
    /\ pc = "idle"
    /\ staticInit' = "running"
    /\ pc' = "fillUsedMasks"
    /\ usedBits' = 0
    /\ initRuns' = initRuns + 1
    /\ UNCHANGED <<_usedMasks, _stripMasks, initDone, bucket, last>>

\* BucketId::initialize() called by other code of the process
InitializeCall ==
    /\ staticInit # "running"
    /\ pc = "idle"
    /\ initRuns < MaxInitRuns
    /\ pc' = "fillUsedMasks"
    /\ usedBits' = 0
    /\ initRuns' = initRuns + 1
    /\ UNCHANGED <<_usedMasks, _stripMasks, staticInit, initDone, bucket, last>>

\* one iteration of the loop of fillUsedMasks(_usedMasks, maxNumBits)
fillUsedMasksStep ==
    /\ pc = "fillUsedMasks"
    /\ IF usedBits <= maxNumBits
       THEN /\ _usedMasks' = [_usedMasks EXCEPT ![usedBits] = usedMask(usedBits)]
            /\ usedBits' = usedBits + 1
            /\ pc' = pc
       ELSE /\ _usedMasks' = _usedMasks
            /\ usedBits' = 0
            /\ pc' = "fillStripMasks"
    /\ UNCHANGED <<_stripMasks, staticInit, initRuns, initDone, bucket, last>>

\* one iteration of the loop of fillStripMasks(_stripMasks, maxNumBits)
fillStripMasksStep ==
    /\ pc = "fillStripMasks"
    /\ IF usedBits <= maxNumBits
       THEN /\ _stripMasks' = [_stripMasks EXCEPT ![usedBits] = stripMask(usedBits, maxNumBits)]
            /\ usedBits' = usedBits + 1
            /\ UNCHANGED <<pc, initDone, staticInit>>
       ELSE /\ _stripMasks' = _stripMasks
            /\ usedBits' = 0
            /\ pc' = "idle"
            /\ initDone' = initDone + 1
            /\ staticInit' = IF staticInit = "running" THEN "done" ELSE staticInit
    /\ UNCHANGED <<_usedMasks, initRuns, bucket, last>>

\* BucketId(used, id).getId() by a consumer, at any time: in another unit's
\* initializer ordered before this unit's, on a thread such an initializer
\* started (the fill stores with no synchronisation, so the read may fall
\* between two of its stores), or after start-up
GetIdCall ==
    /\ \E u \in UsedInputs, id \in ChainIdInputs :
          LET x == createUsedBits(u, id)
          IN  last' = [NoCall EXCEPT !.op = "getId", !.n = u, !.val = x,
                                    !.mask = _stripMasks[getUsedBits(x)],
                                    !.out = getId(x, Zero)]
    /\ UNCHANGED <<_usedMasks, _stripMasks, staticInit, pc, usedBits, initRuns, initDone, bucket>>

NextStartup ==
    \/ StaticInitBegin
    \/ InitializeCall
    \/ fillUsedMasksStep
    \/ fillStripMasksStep
    \/ GetIdCall

SpecStartup == InitStartup /\ [][NextStartup]_vars

(***************************************************************************)
(* After start-up                                                          *)
(***************************************************************************)
\* BucketId::initialize(), run to completion
Initialized ==
    /\ _usedMasks = fillUsedMasks(maxNumBits)
    /\ _stripMasks = fillStripMasks(maxNumBits)
    /\ staticInit = "done"
    /\ pc = "idle"
    /\ usedBits = 0
    /\ initRuns = 1
    /\ initDone = 1

Tables == <<_usedMasks, _stripMasks, staticInit, pc, usedBits, initRuns, initDone>>

InitKey ==
    /\ Initialized
    /\ bucket = [x \in Names |-> Zero]
    /\ last = NoCall

ReverseCall ==
    /\ \E id \in KeyInputs :
          last' = [NoCall EXCEPT !.op = "reverse", !.val = id, !.out = reverse(id)]
    /\ UNCHANGED <<Tables, bucket>>

KeyToBucketIdCall ==
    /\ \E key \in KeyInputs :
          last' = [NoCall EXCEPT !.op = "keyToBucketId", !.val = key,
                                    !.out = keyToBucketId(key)]
    /\ UNCHANGED <<Tables, bucket>>

NextKey ==
    \/ ReverseCall
    \/ KeyToBucketIdCall

SpecKey == InitKey /\ [][NextKey]_vars

Init ==
    /\ Initialized
    /\ bucket \in [Names -> IdObjects]
    /\ last = NoCall

\* x.contains(y)
ContainsCall ==
    /\ \E x \in DOMAIN bucket, y \in DOMAIN bucket :
          LET self == bucket[x]
              id == bucket[y]
          IN  \E oob \in IF getUsedBits(self) <= maxNumBits THEN {Zero} ELSE OobReads :
                last' = [NoCall EXCEPT
                          !.op = "contains", !.self = x, !.arg = y,
                          !.out = IF getUsedBits(id) < getUsedBits(self)
                                  THEN Zero
                                  ELSE reduce(getUsedBits(self), getRawId(id), oob),
                          !.ret = contains(self, id, oob)]
    /\ UNCHANGED <<Tables, bucket>>

\* x.setUsedBits(n)
SetUsedBitsCall ==
    /\ \E x \in DOMAIN bucket, n \in SetUsedBitsInputs :
          LET r == setUsedBits(bucket[x], n)
          IN  /\ bucket' = [bucket EXCEPT ![x] = r._id]
              /\ last' = [NoCall EXCEPT !.op = "setUsedBits", !.self = x, !.n = n,
                                        !.val = bucket[x], !.exc = r.exc]
    /\ UNCHANGED Tables

\* operator>>(nbostream &, BucketId &): is >> bucketId._id
DeserializeCall ==
    /\ \E x \in DOMAIN bucket, raw \in WireInputs :
          /\ bucket' = [bucket EXCEPT ![x] = raw]
          /\ last' = [NoCall EXCEPT !.op = "deserialize", !.self = x, !.val = raw]
    /\ UNCHANGED Tables

Next ==
    \/ ContainsCall
    \/ SetUsedBitsCall
    \/ DeserializeCall

Spec == Init /\ [][Next]_vars

InitChain ==
    /\ Initialized
    /\ bucket \in [ChainNames -> ChainObjects]
    /\ last = NoCall

NextChain ==
    \/ ContainsCall
    \/ DeserializeCall

SpecChain == InitChain /\ [][NextChain]_vars

(***************************************************************************)
(* Properties                                                              *)
(***************************************************************************)
\* the low n bit positions of a word
LowBits(n) == {i \in Bit : i < n}

\* the location field of an identifier
Location(id) == id \cap LowBits(maxNumBits)

\* x's trie path (its low usedBits location bits) is a prefix of y's
PrefixOf(x, y) ==
    /\ getUsedBits(y) >= getUsedBits(x)
    /\ y \cap LowBits(getUsedBits(x)) = x \cap LowBits(getUsedBits(x))

ContainsReturned == last.op = "contains"

Self == bucket[last.self]

Arg == bucket[last.arg]

\* the used-bits count of an identifier is in 0..maxNumBits
InRange(id) == getUsedBits(id) <= maxNumBits

\* x.contains(y) returned for two identifiers with counts in 0..maxNumBits
ContainsInRange == ContainsReturned /\ InRange(Self) /\ InRange(Arg)

\* C1 as stated, for a and b with counts in 0..maxNumBits: a.contains(b) returns true iff b.usedBits >= a.usedBits and
\* the low a.usedBits location bits of b equal those of a, a.usedBits = 0
\* (the empty path) included.
C1_PrefixIffContains == ContainsInRange => (last.ret <=> PrefixOf(Self, Arg))

\* C1 amended: for a.usedBits in 1..maxNumBits, a.contains(b) returns true iff
\* b.usedBits >= a.usedBits and the low a.usedBits location bits of b equal
\* those of a; for a.usedBits = 0 (whose table entries are the all-ones mask)
\* it returns true iff the whole location fields of a and b are identical.
C1_PrefixIffContainsFromOneBit ==
    ContainsInRange =>
        IF getUsedBits(Self) = 0
        THEN last.ret <=> (Location(Arg) = Location(Self))
        ELSE last.ret <=> PrefixOf(Self, Arg)

\* a strict refinement was accepted although it differs above the prefix
C1_Witness ==
    /\ ContainsInRange
    /\ last.ret
    /\ getUsedBits(Self) >= 1
    /\ getUsedBits(Arg) > getUsedBits(Self)
    /\ Location(Arg) # Location(Self)

\* C2: a.contains(b) returns false whenever b.usedBits < a.usedBits, whatever
\* the location and don't-care bits are.
C2_CoarserNeverContained ==
    (ContainsReturned /\ getUsedBits(Arg) < getUsedBits(Self)) => ~last.ret

\* the guard rejected a candidate whose reduction would have compared equal
C2_Witness ==
    /\ ContainsReturned
    /\ getUsedBits(Arg) < getUsedBits(Self)
    /\ InRange(Self)
    /\ reduce(getUsedBits(Self), getRawId(Arg), Zero) = getId(Self, Zero)
    /\ ~last.ret

\* C3: setUsedBits(n) succeeds for every n <= maxNumBits, leaving the count
\* field at n, and fails for every n > maxNumBits with an IllegalArgument
\* error that carries n and maxNumBits, in this order.
C3_SetUsedBitsBound ==
    last.op = "setUsedBits" =>
        IF last.n <= maxNumBits
        THEN /\ last.exc = NoException
             /\ getUsedBits(Self) = last.n
        ELSE /\ last.exc.type = "IllegalArgumentException"
             /\ last.exc.message[2] = last.n
             /\ last.exc.message[4] = maxNumBits
             /\ Self = last.val

\* setUsedBits(maxNumBits + 1) threw
C3_Witness ==
    /\ last.op = "setUsedBits"
    /\ last.n = maxNumBits + 1
    /\ last.exc.type = "IllegalArgumentException"

\* C4: once initialize() has run, for every n in 0..maxNumBits _usedMasks[n]
\* has exactly the low n bits set (all 64 for n = 0) and _stripMasks[n] is
\* _usedMasks[n] or-ed with the top W - maxNumBits bits.
C4_MaskTables ==
    initDone >= 1 =>
        \A n \in 0..maxNumBits :
            /\ _usedMasks[n] = (IF n = 0 THEN Bit ELSE LowBits(n))
            /\ _stripMasks[n] = _usedMasks[n] \cup CountField

\* the static initializer has completed its run of initialize()
C4_Witness == initDone >= 1 /\ staticInit = "done" /\ pc = "idle"

\* C5 as stated: the count field of keyToBucketId(key) is the top
\* W - maxNumBits bits of the un-reversed key.
C5_CountFromKeyHighBits ==
    last.op = "keyToBucketId" => (last.out \cap CountField = last.val \cap CountField)

\* C5 amended: the count field of keyToBucketId(key) is the low W - maxNumBits
\* bits of the un-reversed key (bits 0..5), moved up into count-field position.
C5_CountFromKeyLowBits ==
    last.op = "keyToBucketId" =>
        (last.out \cap CountField = {i + maxNumBits : i \in last.val \cap LowBits(CountBits)})

\* a key whose low and high count-field-worth of bits differ was converted
C5_Witness ==
    /\ last.op = "keyToBucketId"
    /\ 0 \in last.val
    /\ (W - 1) \notin last.val
    /\ (W - 1) \in last.out

\* C6: reverse(x) is the bit-by-bit reversal of x: bit i of x is bit 63 - i
\* of the result.
C6_ReverseIsNaive ==
    last.op = "reverse" => (last.out = {(W - 1) - i : i \in last.val})

\* a word that is not its own reversal was reversed
C6_Witness ==
    /\ last.op = "reverse"
    /\ last.val = LowBits(5)
    /\ last.out # last.val

\* C7: the fill runs exactly once, and no identifier operation reads an entry
\* of an unfilled or partly filled table (a filled entry of _stripMasks is
\* never zero).
C7_FilledOnceBeforeUse ==
    /\ initRuns <= 1
    /\ last.op = "getId" => last.mask # Zero

\* C8: for x with a used-bits count in 0..maxNumBits, x.contains(x) returns
\* true, whatever don't-care bits x carries.
C8_Reflexive == (ContainsInRange /\ last.self = last.arg) => last.ret

\* an identifier with don't-care bits above its used bits contained itself
C8_Witness ==
    /\ ContainsInRange
    /\ last.self = last.arg
    /\ getId(Self, Zero) # getRawId(Self)
    /\ last.ret

\* the comparison of lines 147-148 was reached
Reduced == ContainsReturned /\ InRange(Self) /\ getUsedBits(Arg) >= getUsedBits(Self)

\* C9: reducing a raw value to a precision n in 0..maxNumBits twice gives what
\* reducing it once gives.
C9_ReduceIdempotent ==
    Reduced => (reduce(getUsedBits(Self), last.out, Zero) = last.out)

\* a reduction that dropped bits of the candidate
C9_Witness ==
    /\ Reduced
    /\ last.out \cap LowBits(maxNumBits) # Location(Arg)
    /\ reduce(getUsedBits(Self), last.out, Zero) = last.out

\* C10 as stated: for a, b, c with counts in 0..maxNumBits, if a.contains(b)
\* and b.contains(c) then a.contains(c), a used-bits count of 0 included.
C10_Transitive ==
    (ContainsInRange /\ last.ret) =>
        \A z \in {y \in DOMAIN bucket : InRange(bucket[y])} :
            contains(Arg, bucket[z], Zero) => contains(Self, bucket[z], Zero)

\* C10 amended: for a, b, c with counts in 0..maxNumBits, if a.contains(b) and
\* b.contains(c) then a.contains(c), unless a.usedBits = 0 and b.usedBits > 0.
C10_TransitiveFromOneBit ==
    (ContainsInRange /\ last.ret /\ ~(getUsedBits(Self) = 0 /\ getUsedBits(Arg) > 0)) =>
        \A z \in {y \in DOMAIN bucket : InRange(bucket[y])} :
            contains(Arg, bucket[z], Zero) => contains(Self, bucket[z], Zero)

\* a chain of three identifiers, the first coarser than the others and
\* differing from the last above its used bits
C10_Witness ==
    /\ ContainsInRange
    /\ last.ret
    /\ getUsedBits(Self) >= 1
    /\ \E z \in DOMAIN bucket \ {last.self, last.arg} :
          /\ InRange(bucket[z])
          /\ getUsedBits(bucket[z]) >= getUsedBits(Arg)
          /\ getUsedBits(Arg) > getUsedBits(Self)
          /\ Location(bucket[z]) # Location(Self)
          /\ contains(Arg, bucket[z], Zero)
          /\ contains(Self, bucket[z], Zero)

====
